---- MODULE Spec2Model ----
(***************************************************************************)
(* Model of the Watson service facades of the node-sdk:                    *)
(*   PersonalityInsightsV3Generated / PersonalityInsightsV3                *)
(*   ToneAnalyzerV3, VisualRecognitionV3.                                  *)
(* A facade instance holds this._options; every operation validates its    *)
(* required parameters, builds {options, defaultOptions} and hands them to  *)
(* requestFactory.  JavaScript objects are functions from property names   *)
(* to values, JavaScript strings/booleans passed by callers are strings,   *)
(* and the value undefined is the string Undefined.                        *)
(***************************************************************************)
EXTENDS Integers, Sequences, FiniteSets, TLC

VARIABLES status, cls, ctorOptions, _options, constructed, last, inflight, done,
          validation, again

vars ==
    <<status, cls, ctorOptions, _options, constructed, last, inflight, done, validation,
      again>>

-----------------------------------------------------------------------------
(* JavaScript values *)

Undefined == "undefined"

EmptyObject == [k \in {} |-> Undefined]

JSNull == [type |-> "null"]

\* truthiness of an array, which is truthy even when empty
TruthyLikeArray(v) == TRUE

\* JavaScript truthiness of the value returned by the parameter validator
Truthy(v) == v.type \notin {"null", "undefined"}

\* a property read: obj.k is undefined when obj has no property k
Get(obj, k) == IF k \in DOMAIN obj THEN obj[k] ELSE Undefined

-----------------------------------------------------------------------------
(* Bounds and input domains *)

\* number of requests that may await their response at the same time
MaxInFlight == 2

PIGen == "PersonalityInsightsV3Generated"
PI == "PersonalityInsightsV3"
TA == "ToneAnalyzerV3"
VR == "VisualRecognitionV3"

Classes == {PIGen, PI, TA, VR}

VersionDates == {"2016-05-19", "2017-10-13"}

\* options.headers given to the constructor: one header no operation sets and one
\* that some operations set
DefaultHeaderChoices ==
    { ("X-Watson-Learning-Opt-Out" :> "true") @@ ("accept-language" :> "fr") }

\* a function value, passed where an operation expects params or a callback
ArgFunction == [kind |-> "function", obj |-> EmptyObject]

CtorOptions ==
    [version_date : VersionDates \cup {Undefined}, headers : DefaultHeaderChoices]

Contents == {"text1"}
ContentTypes ==
    {"application/json", "text/plain", "text/html", "application/json;charset=utf-8"}
Languages == {"en"}
Flags == {"true"}

Opt(S) == S \cup {Undefined}

ArgUndefined == [kind |-> "undefined", obj |-> EmptyObject]
ArgObject(p) == [kind |-> "object", obj |-> p]

ProfileParams ==
    [content : Opt(Contents), content_type : Opt(ContentTypes),
     content_language : Opt(Languages), accept_language : Opt(Languages),
     raw_scores : Opt(Flags), csv_headers : {Undefined},
     consumption_preferences : {Undefined}]

ProfileArgs == {ArgUndefined} \cup {ArgObject(p) : p \in ProfileParams}

ToneParams ==
    [tone_input : Opt(Contents), content_type : Opt(ContentTypes),
     sentences : Opt(Flags), tones : {Undefined},
     content_language : Opt(Languages), accept_language : Opt(Languages)]

ToneArgs == {ArgUndefined} \cup {ArgObject(p) : p \in ToneParams}

ToneChatParams == [utterances : Opt({"utterances1"}), accept_language : Opt(Languages)]

ToneChatArgs == {ArgUndefined} \cup {ArgObject(p) : p \in ToneChatParams}

Files == {"file1"}
ClassifierIds == {"abc123"}

ClassifyParams ==
    [images_file : Opt(Files), parameters : Opt({"{\"url\":\"u\"}"}),
     accept_language : Opt(Languages), images_file_content_type : Opt({"image/png"})]

ClassifyArgs == {ArgUndefined, ArgFunction} \cup {ArgObject(p) : p \in ClassifyParams}

DetectFacesParams ==
    [images_file : Opt(Files), parameters : Opt({"{\"url\":\"u\"}"}),
     images_file_content_type : Opt({"image/png"})]

DetectFacesArgs == {ArgUndefined, ArgFunction} \cup {ArgObject(p) : p \in DetectFacesParams}

CreateClassifierParams ==
    [name : Opt({"dogs"}), classname_positive_examples : Opt(Files),
     negative_examples : Opt(Files)]

CreateClassifierArgs == {ArgUndefined} \cup {ArgObject(p) : p \in CreateClassifierParams}

ClassifierIdParams == [classifier_id : Opt(ClassifierIds)]

ClassifierIdArgs == {ArgUndefined} \cup {ArgObject(p) : p \in ClassifierIdParams}

ListClassifiersParams == [verbose : Opt(Flags)]

ListClassifiersArgs ==
    {ArgUndefined, ArgFunction} \cup {ArgObject(p) : p \in ListClassifiersParams}

UpdateClassifierParams ==
    [classifier_id : Opt(ClassifierIds), classname_positive_examples : Opt(Files),
     negative_examples : Opt(Files)]

UpdateClassifierArgs == {ArgUndefined} \cup {ArgObject(p) : p \in UpdateClassifierParams}

-----------------------------------------------------------------------------
(* Collaborators outside the facades *)

URL(c) ==
    CASE c \in {PIGen, PI} -> "https://gateway.watsonplatform.net/personality-insights/api"
      [] c = TA -> "https://gateway.watsonplatform.net/tone-analyzer/api"
      [] c = VR -> "https://gateway.watsonplatform.net/visual-recognition/api"

\* BaseService.call(this, options): the session options of a new instance
BaseService(c, options) ==
    [url |-> URL(c), version_date |-> options.version_date,
     username |-> "user", password |-> "pass",
     qs |-> EmptyObject, headers |-> options.headers]

\* a validator that takes every falsy value for a missing one
getMissingParamsFalsy(params, requiredParams) ==
    LET missing == SelectSeq(requiredParams,
                       LAMBDA k : Get(params, k) \in {Undefined, "false", "0", ""})
    IN IF missing = <<>> THEN JSNull
       ELSE [type |-> "Error", message |-> "Missing required parameters", missing |-> missing]

\* helper.getMissingParams(params, requiredParams)
getMissingParams(params, requiredParams) ==
    LET missing == SelectSeq(requiredParams, LAMBDA k : Get(params, k) = Undefined)
    IN IF missing = <<>> THEN JSNull
       ELSE [type |-> "Error", message |-> "Missing required parameters", missing |-> missing]

\* helper.buildRequestFileObject(fileParams): the descriptor of a file part
buildRequestFileObject(fileParams) ==
    [data |-> fileParams.data, contentType |-> fileParams.contentType]

\* a copy that assigns every property of source, undefined ones too
extendPropsAssigning(target, source) ==
    [k \in DOMAIN target \cup DOMAIN source |->
        IF k \in DOMAIN source THEN source[k] ELSE target[k]]

\* extend: copy the defined properties of source over target
extendProps(target, source) ==
    [k \in DOMAIN target \cup {n \in DOMAIN source : source[n] # Undefined} |->
        IF k \in DOMAIN source /\ source[k] # Undefined THEN source[k] ELSE target[k]]

\* extend(true, target, {headers: {...}}): deep merge INTO target, which is returned
extend(target, source) ==
    [k \in DOMAIN target \cup DOMAIN source |->
        IF k \in DOMAIN source
        THEN extendProps(IF k \in DOMAIN target THEN target[k] ELSE EmptyObject, source[k])
        ELSE target[k]]

\* the names a path template may hold as placeholders
PlaceholderNames == {"classifier_id"}

Placeholder(name) == "{" \o name \o "}"

\* the placeholder name a path segment stands for, Undefined for a literal segment
PlaceholderOf(segment) ==
    IF \E n \in PlaceholderNames : segment = Placeholder(n)
    THEN CHOOSE n \in PlaceholderNames : segment = Placeholder(n)
    ELSE Undefined

\* the path with every placeholder replaced by its path parameter (the identifiers
\* used here are left as they are by URL encoding)
parsePath(url, path) ==
    [i \in 1..Len(url) |->
        IF PlaceholderOf(url[i]) = Undefined THEN url[i] ELSE Get(path, PlaceholderOf(url[i]))]

\* a placeholder of the path has no path parameter
placeholderUnresolved(url, path) ==
    \E i \in 1..Len(url) :
        PlaceholderOf(url[i]) # Undefined /\ Get(path, PlaceholderOf(url[i])) = Undefined

\* requestFactory's request: the default options merged with the call's options
sendRequest(options, defaultOptions) ==
    [base |-> defaultOptions.url,
     error |-> IF placeholderUnresolved(options.url,
                        IF "path" \in DOMAIN options THEN options.path ELSE EmptyObject)
               THEN "ConfigurationError" ELSE "none",
     url |-> parsePath(options.url,
                 IF "path" \in DOMAIN options THEN options.path ELSE EmptyObject),
     path |-> IF "path" \in DOMAIN options THEN options.path ELSE EmptyObject,
     method |-> options.method,
     headers |-> extendProps(EmptyObject, defaultOptions.headers),
     qs |-> extendProps(extendProps(EmptyObject, defaultOptions.qs),
                        IF "qs" \in DOMAIN options THEN options.qs ELSE EmptyObject),
     json |-> IF "json" \in DOMAIN options THEN options.json ELSE FALSE,
     body |-> Get(options, "body"),
     formData |-> IF "formData" \in DOMAIN options THEN options.formData ELSE EmptyObject]

-----------------------------------------------------------------------------
(* State *)

NoCall ==
    [op |-> "none", arg |-> ArgUndefined, callback |-> FALSE, outcome |-> "none",
     callbacks |-> 0, error |-> JSNull, handler |-> FALSE, options |-> EmptyObject,
     defaultOptions |-> EmptyObject]

NoResponse ==
    [id |-> 0, callback |-> FALSE, result |-> "none", response_to |-> 0,
     calls |-> 0, error |-> JSNull, body |-> Undefined]

\* the last call did not repeat the call before it
NoRepeat ==
    [repeated |-> FALSE, sameOptions |-> FALSE, sameDefaultOptions |-> FALSE,
     sameConfiguration |-> FALSE]

\* no call of the parameter validator observed on its own yet
NoValidation == [params |-> EmptyObject, requiredParams |-> <<>>, missingParams |-> JSNull]

Init ==
    /\ status = "none"
    /\ cls = "none"
    /\ ctorOptions = EmptyObject
    /\ _options = EmptyObject
    /\ constructed = EmptyObject
    /\ last = NoCall
    /\ inflight = <<>>
    /\ done = NoResponse
    /\ validation = NoValidation
    /\ again = NoRepeat

-----------------------------------------------------------------------------
(* Construction *)

\* the check of version_date left out
versionDateNeverMissing(opts) == FALSE

\* typeof this._options.version_date === 'undefined'
versionDateMissing(opts) == opts.version_date = Undefined

\* the assignment of qs.version left out
setVersionSkipped(opts, options) == opts

\* this._options.qs.version = options.version_date
setVersion(opts, options) ==
    [opts EXCEPT !.qs = ("version" :> options.version_date) @@ opts.qs]

\* new Facade(options), for each of the four classes
Construct(c, options) ==
    /\ status = "none"
    /\ cls' = c
    /\ ctorOptions' = options
    /\ IF versionDateMissing(BaseService(c, options))
       THEN /\ status' = "failed"
            /\ UNCHANGED <<_options, constructed>>
       ELSE LET made == setVersion(BaseService(c, options), options)
            IN /\ status' = "ok"
               /\ _options' = made
               /\ constructed' = made
    /\ UNCHANGED <<last, inflight, done, validation, again>>

-----------------------------------------------------------------------------
(* What an operation can end in *)

\* callback(missingParams) without the return: the operation goes on to requestFactory
callbackWithoutReturn(op, arg, callback, missingParams) ==
    /\ last' = [NoCall EXCEPT !.op = op, !.arg = arg, !.callback = callback,
                              !.outcome = "dispatched", !.callbacks = 1,
                              !.error = missingParams, !.handler = callback,
                              !.options = [url |-> <<"v3">>, method |-> "POST"],
                              !.defaultOptions = _options]
    /\ UNCHANGED _options

\* the early return left out
validationNeverFails(missingParams, callback) == FALSE

\* if (missingParams && callback)
validationFails(missingParams, callback) == Truthy(missingParams) /\ callback

\* the early return taken only after the headers were merged into this._options
returnCallbackAfterMerge(op, arg, callback, missingParams) ==
    /\ last' = [NoCall EXCEPT !.op = op, !.arg = arg, !.callback = callback,
                              !.outcome = "callback", !.callbacks = 1,
                              !.error = missingParams]
    /\ _options' = extend(_options, [headers |-> ("accept" :> "application/json")])

\* return callback(missingParams)
returnCallback(op, arg, callback, missingParams) ==
    /\ last' = [NoCall EXCEPT !.op = op, !.arg = arg, !.callback = callback,
                              !.outcome = "callback", !.callbacks = 1,
                              !.error = missingParams]
    /\ UNCHANGED _options

\* params.x with params undefined: a TypeError leaves the operation
throwTypeError(op, arg, callback) ==
    /\ last' = [NoCall EXCEPT !.op = op, !.arg = arg, !.callback = callback,
                              !.outcome = "TypeError"]
    /\ UNCHANGED _options

\* a merge that keeps the headers only
mergeDefaultsDroppingRest(opts, headers) == [headers |-> extendProps(opts.headers, headers)]

\* defaultOptions: extend(true, this._options, {headers: ...}), the object this._options
mergeDefaults(opts, headers) == extend(opts, [headers |-> headers])

\* defaultOptions read from this._options before the headers are merged into it
requestFactoryBeforeMerge(op, arg, callback, handler, options, headers) ==
    /\ _options' = mergeDefaults(_options, headers)
    /\ last' = [NoCall EXCEPT !.op = op, !.arg = arg, !.callback = callback,
                              !.outcome = "dispatched", !.handler = handler,
                              !.options = options,
                              !.defaultOptions = _options]

\* parameters = {options, defaultOptions}; return requestFactory(parameters, handler)
requestFactory(op, arg, callback, handler, options, headers) ==
    LET defaultOptions == mergeDefaults(_options, headers)
    IN /\ _options' = defaultOptions
       /\ last' = [NoCall EXCEPT !.op = op, !.arg = arg, !.callback = callback,
                                 !.outcome = "dispatched", !.handler = handler,
                                 !.options = options,
                                 !.defaultOptions = defaultOptions]

-----------------------------------------------------------------------------
(* Personality Insights *)

profileHeaders(params) ==
    ("accept" :> "application/json")
    @@ ("content-type" :> params.content_type)
    @@ ("content-language" :> params.content_language)
    @@ ("accept-language" :> params.accept_language)

profileOptions(params) ==
    [url |-> <<"v3", "profile">>, method |-> "POST",
     json |-> (params.content_type = "application/json"),
     body |-> params.content,
     qs |-> [raw_scores |-> params.raw_scores, csv_headers |-> params.csv_headers,
             consumption_preferences |-> params.consumption_preferences]]

profile(arg, callback) ==
    LET requiredParams == <<"content", "content_type">>
        missingParams == getMissingParams(arg.obj, requiredParams)
    IN /\ status = "ok" /\ cls \in {PIGen, PI}
       /\ IF validationFails(missingParams, callback)
          THEN returnCallback("profile", arg, callback, missingParams)
          ELSE IF arg.kind = "undefined"
          THEN throwTypeError("profile", arg, callback)
          ELSE requestFactory("profile", arg, callback, callback,
                              profileOptions(arg.obj), profileHeaders(arg.obj))

\* profile_csv without an accept header of its own
profile_csvHeadersNoAccept(params) ==
    ("content-type" :> params.content_type)
    @@ ("content-language" :> params.content_language)
    @@ ("accept-language" :> params.accept_language)

profile_csvHeaders(params) ==
    ("accept" :> "text/csv")
    @@ ("content-type" :> params.content_type)
    @@ ("content-language" :> params.content_language)
    @@ ("accept-language" :> params.accept_language)

profile_csvOptions(params) ==
    [url |-> <<"v3", "profile">>, method |-> "POST",
     json |-> (params.content_type = "application/json"),
     body |-> params.content,
     qs |-> [raw_scores |-> params.raw_scores, csv_headers |-> params.csv_headers,
             consumption_preferences |-> params.consumption_preferences]]

profile_csv(arg, callback) ==
    LET requiredParams == <<"content", "content_type">>
        missingParams == getMissingParams(arg.obj, requiredParams)
    IN /\ status = "ok" /\ cls = PI
       /\ IF validationFails(missingParams, callback)
          THEN returnCallback("profile_csv", arg, callback, missingParams)
          ELSE IF arg.kind = "undefined"
          THEN throwTypeError("profile_csv", arg, callback)
          ELSE requestFactory("profile_csv", arg, callback, callback,
                              profile_csvOptions(arg.obj), profile_csvHeaders(arg.obj))

-----------------------------------------------------------------------------
(* Tone Analyzer *)

toneHeaders(params) ==
    ("accept" :> "application/json")
    @@ ("content-type" :> params.content_type)
    @@ ("content-language" :> params.content_language)
    @@ ("accept-language" :> params.accept_language)

\* tone with json serialization always on
toneOptionsAlwaysJson(params) ==
    [url |-> <<"v3", "tone">>, method |-> "POST", json |-> TRUE,
     body |-> params.tone_input,
     qs |-> [sentences |-> params.sentences, tones |-> params.tones]]

toneOptions(params) ==
    [url |-> <<"v3", "tone">>, method |-> "POST",
     json |-> (params.content_type = "application/json"),
     body |-> params.tone_input,
     qs |-> [sentences |-> params.sentences, tones |-> params.tones]]

tone(arg, callback) ==
    LET requiredParams == <<"tone_input", "content_type">>
        missingParams == getMissingParams(arg.obj, requiredParams)
    IN /\ status = "ok" /\ cls = TA
       /\ IF validationFails(missingParams, callback)
          THEN returnCallback("tone", arg, callback, missingParams)
          ELSE IF arg.kind = "undefined"
          THEN throwTypeError("tone", arg, callback)
          ELSE requestFactory("tone", arg, callback, callback,
                              toneOptions(arg.obj), toneHeaders(arg.obj))

toneChatHeaders(params) ==
    ("accept" :> "application/json")
    @@ ("content-type" :> "application/json")
    @@ ("accept-language" :> params.accept_language)

toneChatOptions(params) ==
    [url |-> <<"v3", "tone_chat">>, method |-> "POST", json |-> TRUE,
     body |-> [utterances |-> params.utterances]]

toneChat(arg, callback) ==
    LET requiredParams == <<"utterances">>
        missingParams == getMissingParams(arg.obj, requiredParams)
    IN /\ status = "ok" /\ cls = TA
       /\ IF validationFails(missingParams, callback)
          THEN returnCallback("toneChat", arg, callback, missingParams)
          ELSE IF arg.kind = "undefined"
          THEN throwTypeError("toneChat", arg, callback)
          ELSE requestFactory("toneChat", arg, callback, callback,
                              toneChatOptions(arg.obj), toneChatHeaders(arg.obj))

-----------------------------------------------------------------------------
(* Visual Recognition *)

\* a function passed for params is not taken for the callback
swappedCallbackNever(arg, callback) == callback

\* params = params || {}; if (typeof params === 'function' && !callback) ...
\* the callback the operation ends up with
swappedCallback(arg, callback) == callback \/ arg.kind = "function"

\* the params the operation ends up with: {} for params undefined and for a function
\* taken as the callback; a function left as params has none of the parameters either
swappedParams(arg) == IF arg.kind = "object" THEN arg.obj ELSE EmptyObject

multipartHeaders ==
    ("accept" :> "application/json") @@ ("content-type" :> "multipart/form-data")

jsonHeaders ==
    ("accept" :> "application/json") @@ ("content-type" :> "application/json")

classifyHeaders(params) ==
    multipartHeaders @@ ("accept_language" :> Get(params, "accept_language"))

classifyOptions(params) ==
    [url |-> <<"v3", "classify">>, method |-> "POST",
     formData |->
        [images_file |-> buildRequestFileObject(
                            [data |-> Get(params, "images_file"),
                             contentType |-> "\"application/octet-stream\""]),
         parameters |-> Get(params, "parameters")]]

classify(arg, callback) ==
    /\ status = "ok" /\ cls = VR
    /\ requestFactory("classify", arg, callback, swappedCallback(arg, callback),
                      classifyOptions(swappedParams(arg)),
                      classifyHeaders(swappedParams(arg)))

detectFacesOptions(params) ==
    [url |-> <<"v3", "detect_faces">>, method |-> "POST",
     formData |->
        [images_file |-> buildRequestFileObject(
                            [data |-> Get(params, "images_file"),
                             contentType |-> "\"application/octet-stream\""]),
         parameters |-> Get(params, "parameters")]]

detectFaces(arg, callback) ==
    /\ status = "ok" /\ cls = VR
    /\ requestFactory("detectFaces", arg, callback, swappedCallback(arg, callback),
                      detectFacesOptions(swappedParams(arg)), multipartHeaders)

createClassifierOptions(params) ==
    [url |-> <<"v3", "classifiers">>, method |-> "POST",
     formData |->
        [name |-> params.name,
         classname_positive_examples |-> buildRequestFileObject(
              [data |-> params.classname_positive_examples,
               contentType |-> "application/octet-stream"]),
         negative_examples |-> buildRequestFileObject(
              [data |-> params.negative_examples,
               contentType |-> "application/octet-stream"])]]

createClassifier(arg, callback) ==
    LET requiredParams == <<"name", "classname_positive_examples">>
        missingParams == getMissingParams(arg.obj, requiredParams)
    IN /\ status = "ok" /\ cls = VR
       /\ IF validationFails(missingParams, callback)
          THEN returnCallback("createClassifier", arg, callback, missingParams)
          ELSE IF arg.kind = "undefined"
          THEN throwTypeError("createClassifier", arg, callback)
          ELSE requestFactory("createClassifier", arg, callback, callback,
                              createClassifierOptions(arg.obj), multipartHeaders)

deleteClassifierOptions(params) ==
    [url |-> <<"v3", "classifiers", "{classifier_id}">>, method |-> "DELETE",
     path |-> [classifier_id |-> params.classifier_id]]

deleteClassifier(arg, callback) ==
    LET requiredParams == <<"classifier_id">>
        missingParams == getMissingParams(arg.obj, requiredParams)
    IN /\ status = "ok" /\ cls = VR
       /\ IF validationFails(missingParams, callback)
          THEN returnCallback("deleteClassifier", arg, callback, missingParams)
          ELSE IF arg.kind = "undefined"
          THEN throwTypeError("deleteClassifier", arg, callback)
          ELSE requestFactory("deleteClassifier", arg, callback, callback,
                              deleteClassifierOptions(arg.obj), jsonHeaders)

getClassifierOptions(params) ==
    [url |-> <<"v3", "classifiers", "{classifier_id}">>, method |-> "GET",
     path |-> [classifier_id |-> params.classifier_id]]

getClassifier(arg, callback) ==
    LET requiredParams == <<"classifier_id">>
        missingParams == getMissingParams(arg.obj, requiredParams)
    IN /\ status = "ok" /\ cls = VR
       /\ IF validationFails(missingParams, callback)
          THEN returnCallback("getClassifier", arg, callback, missingParams)
          ELSE IF arg.kind = "undefined"
          THEN throwTypeError("getClassifier", arg, callback)
          ELSE requestFactory("getClassifier", arg, callback, callback,
                              getClassifierOptions(arg.obj), jsonHeaders)

listClassifiersOptions(params) ==
    [url |-> <<"v3", "classifiers">>, method |-> "GET",
     qs |-> [verbose |-> Get(params, "verbose")]]

listClassifiers(arg, callback) ==
    /\ status = "ok" /\ cls = VR
    /\ requestFactory("listClassifiers", arg, callback, swappedCallback(arg, callback),
                      listClassifiersOptions(swappedParams(arg)), jsonHeaders)

\* updateClassifier without its path parameters
updateClassifierOptionsNoPath(params) ==
    [url |-> <<"v3", "classifiers", "{classifier_id}">>, method |-> "POST",
     formData |->
        [classname_positive_examples |-> buildRequestFileObject(
              [data |-> params.classname_positive_examples,
               contentType |-> "application/octet-stream"]),
         negative_examples |-> buildRequestFileObject(
              [data |-> params.negative_examples,
               contentType |-> "application/octet-stream"])]]

updateClassifierOptions(params) ==
    [url |-> <<"v3", "classifiers", "{classifier_id}">>, method |-> "POST",
     path |-> [classifier_id |-> params.classifier_id],
     formData |->
        [classname_positive_examples |-> buildRequestFileObject(
              [data |-> params.classname_positive_examples,
               contentType |-> "application/octet-stream"]),
         negative_examples |-> buildRequestFileObject(
              [data |-> params.negative_examples,
               contentType |-> "application/octet-stream"])]]

updateClassifier(arg, callback) ==
    LET requiredParams == <<"classifier_id">>
        missingParams == getMissingParams(arg.obj, requiredParams)
    IN /\ status = "ok" /\ cls = VR
       /\ IF validationFails(missingParams, callback)
          THEN returnCallback("updateClassifier", arg, callback, missingParams)
          ELSE IF arg.kind = "undefined"
          THEN throwTypeError("updateClassifier", arg, callback)
          ELSE requestFactory("updateClassifier", arg, callback, callback,
                              updateClassifierOptions(arg.obj), multipartHeaders)

-----------------------------------------------------------------------------
(* Specification of the facades: construction, then any sequence of calls *)

Frame ==
    UNCHANGED <<status, cls, ctorOptions, constructed, inflight, done, validation, again>>

Next ==
    \/ \E c \in Classes, o \in CtorOptions : Construct(c, o)
    \/ \E a \in ProfileArgs, cb \in BOOLEAN : profile(a, cb) /\ Frame
    \/ \E a \in ProfileArgs, cb \in BOOLEAN : profile_csv(a, cb) /\ Frame
    \/ \E a \in ToneArgs, cb \in BOOLEAN : tone(a, cb) /\ Frame
    \/ \E a \in ToneChatArgs, cb \in BOOLEAN : toneChat(a, cb) /\ Frame
    \/ \E a \in ClassifyArgs, cb \in BOOLEAN : classify(a, cb) /\ Frame
    \/ \E a \in DetectFacesArgs, cb \in BOOLEAN : detectFaces(a, cb) /\ Frame
    \/ \E a \in CreateClassifierArgs, cb \in BOOLEAN : createClassifier(a, cb) /\ Frame
    \/ \E a \in ClassifierIdArgs, cb \in BOOLEAN : deleteClassifier(a, cb) /\ Frame
    \/ \E a \in ClassifierIdArgs, cb \in BOOLEAN : getClassifier(a, cb) /\ Frame
    \/ \E a \in ListClassifiersArgs, cb \in BOOLEAN : listClassifiers(a, cb) /\ Frame
    \/ \E a \in UpdateClassifierArgs, cb \in BOOLEAN : updateClassifier(a, cb) /\ Frame

Spec == Init /\ [][Next]_vars

-----------------------------------------------------------------------------
(* Specification of calls overlapping in time: a request handed to         *)
(* requestFactory stays in flight until its response arrives, and further  *)
(* calls may be made meanwhile.                                            *)

\* optional parameters the overlapping calls leave out
QuietParams ==
    {"accept_language", "raw_scores", "csv_headers", "consumption_preferences",
     "sentences", "tones", "parameters", "images_file_content_type",
     "negative_examples", "verbose"}

\* required parameters the overlapping calls always supply
SuppliedParams == {"content", "tone_input", "name"}

ConcurrentArgs(args) ==
    {a \in args :
        \A k \in DOMAIN a.obj :
            /\ k \in QuietParams => a.obj[k] = Undefined
            /\ k \in SuppliedParams => a.obj[k] # Undefined
            /\ k = "content_type" => a.obj[k] \in {Undefined, "text/plain"}}

\* the object a request's defaultOptions refers to, when this._options is opts
DefaultOptionsOf(r, opts) == IF r.defaultOptions = "this._options" THEN opts ELSE EmptyObject

FreeId == CHOOSE i \in 1..(Len(inflight) + 1) : \A k \in 1..Len(inflight) : inflight[k].id # i

\* how a request in flight can end
Results == {"ok", "network failure", "non-2xx status", "decode failure"}

\* requestFactory(parameters, handler) sends the request and returns; a path whose
\* placeholder has no value is a ConfigurationError and nothing is sent
issue ==
    IF /\ last'.outcome = "dispatched"
       /\ sendRequest(last'.options, last'.defaultOptions).error = "none"
    THEN /\ Len(inflight) < MaxInFlight
         /\ inflight' = Append(inflight,
                [id |-> FreeId, callback |-> last'.handler,
                 defaultOptions |-> "this._options"])
    ELSE UNCHANGED inflight

\* the response of request k arrives: its callback, if any, gets (error, body, response)
Respond(k, result) ==
    /\ k \in 1..Len(inflight)
    /\ inflight' = [i \in 1..(Len(inflight) - 1) |->
                       IF i < k THEN inflight[i] ELSE inflight[i + 1]]
    /\ done' = [id |-> inflight[k].id, callback |-> inflight[k].callback,
                result |-> result, response_to |-> inflight[k].id,
                calls |-> IF inflight[k].callback THEN 1 ELSE 0,
                error |-> IF result = "ok" THEN JSNull
                          ELSE [type |-> "Error", message |-> result],
                body |-> IF result = "ok" THEN "body" ELSE Undefined]
    /\ UNCHANGED <<status, cls, ctorOptions, _options, constructed, last, validation, again>>

FrameAsync ==
    issue /\ UNCHANGED <<status, cls, ctorOptions, constructed, done, validation, again>>

NextAsync ==
    \/ \E c \in Classes, o \in CtorOptions : Construct(c, o)
    \/ \E a \in ConcurrentArgs(ProfileArgs), cb \in BOOLEAN : profile(a, cb) /\ FrameAsync
    \/ \E a \in ConcurrentArgs(ProfileArgs), cb \in BOOLEAN : profile_csv(a, cb) /\ FrameAsync
    \/ \E a \in ConcurrentArgs(ToneArgs), cb \in BOOLEAN : tone(a, cb) /\ FrameAsync
    \/ \E a \in ConcurrentArgs(ToneChatArgs), cb \in BOOLEAN : toneChat(a, cb) /\ FrameAsync
    \/ \E a \in ConcurrentArgs(ClassifyArgs), cb \in BOOLEAN : classify(a, cb) /\ FrameAsync
    \/ \E a \in ConcurrentArgs(DetectFacesArgs), cb \in BOOLEAN : detectFaces(a, cb) /\ FrameAsync
    \/ \E a \in ConcurrentArgs(CreateClassifierArgs), cb \in BOOLEAN :
          createClassifier(a, cb) /\ FrameAsync
    \/ \E a \in ConcurrentArgs(ClassifierIdArgs), cb \in BOOLEAN :
          deleteClassifier(a, cb) /\ FrameAsync
    \/ \E a \in ConcurrentArgs(ClassifierIdArgs), cb \in BOOLEAN :
          getClassifier(a, cb) /\ FrameAsync
    \/ \E a \in ConcurrentArgs(ListClassifiersArgs), cb \in BOOLEAN :
          listClassifiers(a, cb) /\ FrameAsync
    \/ \E a \in ConcurrentArgs(UpdateClassifierArgs), cb \in BOOLEAN :
          updateClassifier(a, cb) /\ FrameAsync
    \/ \E k \in 1..MaxInFlight, result \in Results : Respond(k, result)

SpecAsync == Init /\ [][NextAsync]_vars

\* the response of the request with identity id arrives
RespondTo(id) ==
    \E k \in 1..Len(inflight), result \in Results : inflight[k].id = id /\ Respond(k, result)

\* every request sent ends: in a response, or in a transport error
SpecAsyncFair == SpecAsync /\ \A id \in 1..MaxInFlight : WF_vars(RespondTo(id))

-----------------------------------------------------------------------------
(* Specification of calls made one after the other, where it is recorded    *)
(* whether a call repeats the call before it and what it then handed over.  *)

\* the call just made is the call made before it, which had handed over a request
repeats == /\ last.outcome = "dispatched"
           /\ last'.op = last.op /\ last'.arg = last.arg /\ last'.callback = last.callback

FrameRepeat ==
    /\ again' = [repeated |-> repeats,
                 sameOptions |-> repeats /\ last'.options = last.options,
                 sameDefaultOptions |-> repeats /\ last'.defaultOptions = last.defaultOptions,
                 sameConfiguration |-> repeats /\ _options' = _options]
    /\ UNCHANGED <<status, cls, ctorOptions, constructed, inflight, done, validation>>

NextRepeat ==
    \/ \E c \in Classes, o \in CtorOptions : Construct(c, o)
    \/ \E a \in ProfileArgs, cb \in BOOLEAN : profile(a, cb) /\ FrameRepeat
    \/ \E a \in ProfileArgs, cb \in BOOLEAN : profile_csv(a, cb) /\ FrameRepeat
    \/ \E a \in ToneArgs, cb \in BOOLEAN : tone(a, cb) /\ FrameRepeat
    \/ \E a \in ToneChatArgs, cb \in BOOLEAN : toneChat(a, cb) /\ FrameRepeat
    \/ \E a \in ClassifyArgs, cb \in BOOLEAN : classify(a, cb) /\ FrameRepeat
    \/ \E a \in DetectFacesArgs, cb \in BOOLEAN : detectFaces(a, cb) /\ FrameRepeat
    \/ \E a \in CreateClassifierArgs, cb \in BOOLEAN :
          createClassifier(a, cb) /\ FrameRepeat
    \/ \E a \in ClassifierIdArgs, cb \in BOOLEAN :
          deleteClassifier(a, cb) /\ FrameRepeat
    \/ \E a \in ClassifierIdArgs, cb \in BOOLEAN :
          getClassifier(a, cb) /\ FrameRepeat
    \/ \E a \in ListClassifiersArgs, cb \in BOOLEAN :
          listClassifiers(a, cb) /\ FrameRepeat
    \/ \E a \in UpdateClassifierArgs, cb \in BOOLEAN :
          updateClassifier(a, cb) /\ FrameRepeat

SpecRepeat == Init /\ [][NextRepeat]_vars

-----------------------------------------------------------------------------
(* Specification of the parameter validator on its own: getMissingParams    *)
(* applied to any parameter object and required-field list, as in           *)
(* createClassifier.  The JavaScript values false, 0 and '' are the strings *)
(* "false", "0" and "".                                                     *)

ValidatorKeys == {"name", "classname_positive_examples"}

ProvidedValues == {Undefined, "false", "0", "", "dogs"}

\* parameter objects: any of the keys may be absent
ParamMappings == UNION {[D -> ProvidedValues] : D \in SUBSET ValidatorKeys}

RequiredLists ==
    {<<>>, <<"name">>, <<"classname_positive_examples">>,
     <<"name", "classname_positive_examples">>,
     <<"classname_positive_examples", "name">>}

\* const missingParams = helper.getMissingParams(params, requiredParams)
Validate(params, requiredParams) ==
    /\ validation' = [params |-> params, requiredParams |-> requiredParams,
                      missingParams |-> getMissingParams(params, requiredParams)]
    /\ UNCHANGED <<status, cls, ctorOptions, _options, constructed, last, inflight, done,
                   again>>

NextValidator == \E p \in ParamMappings, r \in RequiredLists : Validate(p, r)

SpecValidator == Init /\ [][NextValidator]_vars

-----------------------------------------------------------------------------
(* Properties *)

Dispatched == last.outcome = "dispatched"

\* the request requestFactory sends for the last call
Request == sendRequest(last.options, last.defaultOptions)

\* the required-field list of each operation that has one
Required(op) ==
    CASE op \in {"profile", "profile_csv"} -> {"content", "content_type"}
      [] op = "tone" -> {"tone_input", "content_type"}
      [] op = "toneChat" -> {"utterances"}
      [] op = "createClassifier" -> {"name", "classname_positive_examples"}
      [] op \in {"deleteClassifier", "getClassifier", "updateClassifier"} -> {"classifier_id"}
      [] OTHER -> {}

\* the required fields the last call left out
MissingOfLast == {k \in Required(last.op) : Get(last.arg.obj, k) = Undefined}

\* C1: constructing any facade with version_date absent fails at once: no instance
\* results, no options are kept and no request is made.
C1_NoVersionDateNoInstance ==
    (status # "none" /\ ctorOptions.version_date = Undefined)
        => /\ status = "failed"
           /\ _options = EmptyObject
           /\ last = NoCall
           /\ inflight = <<>>

C1_Witness == status = "failed" /\ cls = TA /\ ctorOptions.version_date = Undefined

\* C2: an operation called with a callback and with a required field missing invokes
\* the callback once, with the validation error naming the missing fields, and hands
\* nothing to requestFactory.
C2_MissingWithCallback ==
    (last.callback /\ MissingOfLast # {})
        => /\ last.outcome = "callback"
           /\ last.callbacks = 1
           /\ last.error.type = "Error"
           /\ {last.error.missing[i] : i \in 1..Len(last.error.missing)} = MissingOfLast
           /\ last.options = EmptyObject
           /\ last.defaultOptions = EmptyObject

C2_Witness ==
    /\ last.op = "tone" /\ last.callback /\ last.outcome = "callback"
    /\ last.arg.kind = "object"
    /\ MissingOfLast = {"content_type"}

\* C3: an operation called without a callback and with a required field missing raises
\* the validation error and hands nothing to requestFactory.
C3_MissingWithoutCallbackRaises ==
    (last.op # "none" /\ ~last.callback /\ MissingOfLast # {})
        => /\ last.outcome = "throw"
           /\ last.error.type = "Error"
           /\ last.options = EmptyObject

\* C4: this._options is what the constructor left.
C4_OptionsImmutable == status = "ok" => _options = constructed

\* the headers handed to requestFactory with the last call
HandedHeaders == last.defaultOptions.headers

\* a language parameter left out leaves its header out, unless the header is one of
\* the instance's default headers
LanguageOmitted(param, header) ==
    (Get(last.arg.obj, param) = Undefined /\ header \notin DOMAIN constructed.headers)
        => header \notin DOMAIN HandedHeaders

\* C5: a call of profile, profile_csv, tone or toneChat that supplies no
\* content_language (accept_language) sends no content-language (accept-language) header.
C5_LanguageHeadersOmitted ==
    (Dispatched /\ last.op \in {"profile", "profile_csv", "tone", "toneChat"})
        => /\ LanguageOmitted("content_language", "content-language")
           /\ LanguageOmitted("accept_language", "accept-language")

\* the headers the operation op sets for params
HeadersOf(op, params) ==
    CASE op = "profile" -> profileHeaders(params)
      [] op = "profile_csv" -> profile_csvHeaders(params)
      [] op = "tone" -> toneHeaders(params)
      [] op = "toneChat" -> toneChatHeaders(params)
      [] op = "classify" -> classifyHeaders(params)
      [] op \in {"detectFaces", "createClassifier", "updateClassifier"} -> multipartHeaders
      [] OTHER -> jsonHeaders

\* C6: the parameters a call hands to requestFactory are those the same call hands
\* over on an instance just built from the same constructor options.
C6_NoStateBetweenCalls ==
    Dispatched => last.defaultOptions = mergeDefaults(constructed, HeadersOf(last.op, last.arg.obj))

\* C7: the defaultOptions given to requestFactory for a request still in flight are
\* not altered by a call made meanwhile, and a callback gets its own request's response.
C7_ConcurrentCallsDoNotInterfere ==
    [][/\ \A k \in 1..Len(inflight) :
            DefaultOptionsOf(inflight[k], _options') = DefaultOptionsOf(inflight[k], _options)
       /\ done'.response_to = done'.id]_vars

\* C8: every request of an instance built with version date V has the query
\* parameter version = V; the operations' own query parameters leave it alone.
C8_VersionOnEveryRequest ==
    Dispatched
        => /\ "version" \in DOMAIN last.defaultOptions.qs
           /\ last.defaultOptions.qs["version"] = ctorOptions.version_date
           /\ "qs" \in DOMAIN last.options => "version" \notin DOMAIN last.options.qs
           /\ "version" \in DOMAIN Request.qs
           /\ Request.qs["version"] = ctorOptions.version_date

C8_Witness ==
    /\ Dispatched /\ last.op = "listClassifiers"
    /\ Get(last.arg.obj, "verbose") = "true"
    /\ Request.qs["verbose"] = "true"
    /\ ctorOptions.version_date = "2016-05-19"

\* C9: profile_csv asks for text/csv and profile for application/json, whatever the
\* content type and whatever was called before.
C9_AcceptPerOperation ==
    Dispatched
        => /\ last.op = "profile_csv" => Get(HandedHeaders, "accept") = "text/csv"
           /\ last.op = "profile" => Get(HandedHeaders, "accept") = "application/json"

\* a profile_csv request sent after an earlier call left its content-language behind
C9_Witness ==
    /\ Dispatched /\ last.op = "profile_csv"
    /\ last.arg.obj.content_type = "text/html"
    /\ last.arg.obj.content_language = Undefined
    /\ "content-language" \in DOMAIN HandedHeaders
    /\ HandedHeaders["accept"] = "text/csv"

\* the content parameter of profile, profile_csv and tone
ContentOfLast ==
    IF last.op = "tone" THEN last.arg.obj.tone_input ELSE last.arg.obj.content

\* C10: profile, profile_csv and tone turn json on for application/json, and for
\* text/plain and text/html leave it off and send the content as the body.
C10_JsonFollowsContentType ==
    (Dispatched /\ last.op \in {"profile", "profile_csv", "tone"})
        => /\ last.arg.obj.content_type = "application/json"
                => last.options.json = TRUE
           /\ last.arg.obj.content_type \in {"text/plain", "text/html"}
                => /\ last.options.json = FALSE
                   /\ last.options.body = ContentOfLast

C10_Witness ==
    /\ Dispatched /\ last.op = "tone"
    /\ last.arg.obj.content_type = "text/html"
    /\ last.arg.obj.tone_input = "text1"
    /\ last.options.json = FALSE /\ last.options.body = "text1"

\* the optional parameters each operation puts in its query or form fields
Optional(op) ==
    CASE op \in {"profile", "profile_csv"} ->
              {"raw_scores", "csv_headers", "consumption_preferences"}
      [] op = "tone" -> {"sentences", "tones"}
      [] op \in {"classify", "detectFaces"} -> {"images_file", "parameters"}
      [] op = "createClassifier" -> {"negative_examples"}
      [] op = "listClassifiers" -> {"verbose"}
      [] op = "updateClassifier" -> {"classname_positive_examples", "negative_examples"}
      [] OTHER -> {}

\* the keys of the query parameters and form fields handed over with the last call
QueryAndFormKeys ==
    (IF "qs" \in DOMAIN last.options THEN DOMAIN last.options.qs ELSE {})
    \cup (IF "formData" \in DOMAIN last.options THEN DOMAIN last.options.formData ELSE {})

\* C11: the query parameters and form fields an operation hands over hold no key for
\* an optional parameter the caller left out.
C11_OmittedOptionalsAbsent ==
    (Dispatched /\ MissingOfLast = {})
        => \A k \in Optional(last.op) :
              Get(last.arg.obj, k) = Undefined => k \notin QueryAndFormKeys

\* the names a validator result reports missing
MissingNames(result) == IF result.type = "Error" THEN result.missing ELSE <<>>

\* the position of name k in the list R
PositionIn(R, k) == CHOOSE j \in 1..Len(R) : R[j] = k

\* C12: the validator reports exactly the required names that are absent from the
\* parameters or undefined in them, in the order of the required list; false, 0 and ''
\* count as provided, and nothing is reported iff every required name is provided.
C12_ValidatorReportsMissing ==
    LET P == validation.params
        R == validation.requiredParams
        m == MissingNames(validation.missingParams)
        inR == {R[j] : j \in 1..Len(R)}
        inM == {m[i] : i \in 1..Len(m)}
    IN /\ inM = {k \in inR : k \notin DOMAIN P \/ P[k] = Undefined}
       /\ Len(m) = Cardinality(inM)
       /\ \A i, j \in 1..Len(m) : i < j => PositionIn(R, m[i]) < PositionIn(R, m[j])
       /\ \A k \in inR : (k \in DOMAIN P /\ P[k] \in {"false", "0", ""}) => k \notin inM
       /\ (m = <<>>) <=> (\A k \in inR : k \in DOMAIN P /\ P[k] # Undefined)
       /\ (m = <<>>) <=> ~Truthy(validation.missingParams)

\* one required name absent, the other given as the empty string
C12_Witness ==
    /\ validation.requiredParams = <<"classname_positive_examples", "name">>
    /\ "classname_positive_examples" \notin DOMAIN validation.params
    /\ Get(validation.params, "name") = ""
    /\ MissingNames(validation.missingParams) = <<"classname_positive_examples">>

InFlight(id) == \E k \in 1..Len(inflight) : inflight[k].id = id

\* what the facade itself does with the callback of the last call
FacadeCallsBack ==
    /\ last.outcome = "callback" => (last.callbacks = 1 /\ ~last.handler)
    /\ last.outcome = "dispatched" => last.callbacks = 0
    /\ (last.op # "none" /\ swappedCallback(last.arg, last.callback))
          => \/ last.outcome = "callback"
             \/ last.outcome = "dispatched" /\ last.handler

\* what the callback of the last completed request got
CompletionCallsBack ==
    done.id # 0
        => /\ done.calls = (IF done.callback THEN 1 ELSE 0)
           /\ done.result # "ok" => (Truthy(done.error) /\ done.body = Undefined)
           /\ done.result = "ok" => (~Truthy(done.error) /\ done.body # Undefined)

\* a request enters flight with its call's callback and leaves it only by completing
FlightKeepsCallback ==
    /\ Len(inflight') = Len(inflight) + 1
          => inflight'[Len(inflight')].callback = last'.handler
    /\ \A k \in 1..Len(inflight) :
          (\A j \in 1..Len(inflight') : inflight'[j].id # inflight[k].id)
              => /\ done'.id = inflight[k].id
                 /\ done'.callback = inflight[k].callback
                 /\ Len(inflight') = Len(inflight) - 1

C15_AtMostOneRequest ==
    [][/\ Len(inflight') <= Len(inflight) + 1
       /\ Len(inflight') = Len(inflight) + 1
             => (last'.outcome = "dispatched" /\ MissingOfLast' = {})
       /\ done' # done => Len(inflight') = Len(inflight) - 1]_vars

\* the operations on one classifier
ClassifierOps == {"getClassifier", "deleteClassifier", "updateClassifier"}

C17_OperationHeadersOverDefaults ==
    Dispatched
        => LET own == HeadersOf(last.op, last.arg.obj)
           IN /\ \A h \in DOMAIN own :
                    own[h] # Undefined => Get(HandedHeaders, h) = own[h]
              /\ \A h \in DOMAIN constructed.headers :
                    Get(own, h) = Undefined => Get(HandedHeaders, h) = constructed.headers[h]

\* C18: an operation with required fields called with params absent ends in the
\* validation error naming all its required fields, handed to the callback when there
\* is one and raised otherwise; it never ends in a TypeError.
C18_AbsentParamsIsEmptyMapping ==
    (last.op # "none" /\ Required(last.op) # {} /\ last.arg.kind = "undefined")
        => /\ last.outcome = (IF last.callback THEN "callback" ELSE "throw")
           /\ last.error.type = "Error"
           /\ {last.error.missing[i] : i \in 1..Len(last.error.missing)} = Required(last.op)

\* the media type of a content type, without its parameters
MediaType(contentType) ==
    CASE contentType = "application/json;charset=utf-8" -> "application/json"
      [] OTHER -> contentType

\* C19: profile, profile_csv and tone serialize the body by the media type of
\* content_type, with or without a charset parameter: JSON for application/json, the
\* content as it is for text/plain and text/html.
C19_SerializationIgnoresCharset ==
    (Dispatched /\ last.op \in {"profile", "profile_csv", "tone"}
        /\ MissingOfLast = {})
        => /\ last.options.json = (MediaType(last.arg.obj.content_type) = "application/json")
           /\ ~last.options.json => last.options.body = ContentOfLast

\* C20: classify and detectFaces declare the images_file part with the content type
\* the caller gave in images_file_content_type, and with application/octet-stream
\* when the caller gave none.
C20_ImagesFileContentType ==
    (Dispatched /\ last.op \in {"classify", "detectFaces"}
        /\ Get(last.arg.obj, "images_file") # Undefined)
        => last.options.formData.images_file.contentType
              = (IF Get(last.arg.obj, "images_file_content_type") # Undefined
                 THEN last.arg.obj.images_file_content_type
                 ELSE "application/octet-stream")

\* C21: classify called with accept_language L hands over the header accept-language
\* with the value L, and under no other name; called without accept_language it adds
\* no accept-language header of its own.
C21_ClassifyAcceptLanguage ==
    (Dispatched /\ last.op = "classify")
        => LET L == Get(last.arg.obj, "accept_language")
           IN /\ L # Undefined => Get(HandedHeaders, "accept-language") = L
              /\ "accept_language" \notin DOMAIN HandedHeaders
              /\ (L = Undefined /\ "accept-language" \notin DOMAIN constructed.headers)
                    => "accept-language" \notin DOMAIN HandedHeaders

\* C22: a call that ends in the callback getting the validation error leaves
\* this._options as it was before the call.
C22_FailedCallLeavesOptions ==
    [][last'.outcome = "callback" => _options' = _options]_vars

\* a call failed validation on an instance whose options earlier calls had changed
C22_Witness ==
    /\ last.op = "createClassifier" /\ last.callback /\ last.outcome = "callback"
    /\ _options # constructed
    /\ Get(_options.headers, "content-type") = "application/json"

\* C23: whatever was called, this._options has the fields the constructor left and all
\* but its headers have the values the constructor left: qs.version, the base URL and
\* the credentials.
C23_OnlyHeadersChange ==
    status = "ok"
        => /\ DOMAIN _options = DOMAIN constructed
           /\ \A k \in DOMAIN constructed \ {"headers"} : _options[k] = constructed[k]
           /\ _options.qs = [version |-> ctorOptions.version_date]
           /\ _options.url = URL(cls)

C23_Witness ==
    /\ last.op = "updateClassifier" /\ Dispatched
    /\ _options.headers # constructed.headers
    /\ _options.qs = constructed.qs /\ _options.url = constructed.url
    /\ _options.username = constructed.username
    /\ _options.password = constructed.password

\* the headers the call just made sets, none when it handed nothing over
OwnHeadersOfCall(call) ==
    IF call.outcome = "dispatched" THEN HeadersOf(call.op, call.arg.obj) ELSE EmptyObject

\* C24: with every call, each header of this._options takes the value the call sets
\* for it when that value is defined and keeps its value otherwise, and no header name
\* goes away: a header holds the value of the latest call that set it, or its default.
C24_HeadersAccumulate ==
    [][status = "ok"
          => LET own == OwnHeadersOfCall(last')
                 set == {h \in DOMAIN own : own[h] # Undefined}
             IN /\ DOMAIN _options'.headers = DOMAIN _options.headers \cup set
                /\ \A h \in set : _options'.headers[h] = own[h]
                /\ \A h \in DOMAIN _options.headers \ set :
                      _options'.headers[h] = _options.headers[h]]_vars

\* toneChat called without accept_language after a call that gave a language: the
\* headers still hold that call's values, not the default
C24_Witness ==
    /\ Dispatched /\ last.op = "toneChat"
    /\ Get(last.arg.obj, "accept_language") = Undefined
    /\ constructed.headers["accept-language"] = "fr"
    /\ _options.headers["accept-language"] = "en"
    /\ Get(_options.headers, "content-language") = "en"
    /\ _options.headers["content-type"] = "application/json"

\* C25: a call that repeats the call before it, same operation and same params on the
\* same instance, hands over the same options and the same default options as that
\* call did, and leaves this._options as that call left it.
C25_RepeatedCallIdempotent ==
    again.repeated
        => /\ again.sameOptions
           /\ again.sameDefaultOptions
           /\ again.sameConfiguration
           /\ last.defaultOptions = _options

\* profile repeated with a content language on an instance that had handled other calls
C25_Witness ==
    /\ again.repeated /\ Dispatched /\ last.op = "profile"
    /\ Get(last.arg.obj, "content_language") = "en"
    /\ again.sameOptions /\ again.sameDefaultOptions /\ again.sameConfiguration

\* the operations whose params are optional
OptionalParamsOps == {"classify", "detectFaces", "listClassifiers"}

\* the options such an operation builds for the params {}
OptionsForEmpty(op) ==
    CASE op = "classify" -> classifyOptions(EmptyObject)
      [] op = "detectFaces" -> detectFacesOptions(EmptyObject)
      [] op = "listClassifiers" -> listClassifiersOptions(EmptyObject)

\* C26: classify, detectFaces and listClassifiers called with a function in place of
\* params take it for the callback and build the request of the params {}; called with
\* params absent they build that request too, and never fail.
C26_FunctionAsParams ==
    (last.op \in OptionalParamsOps /\ last.arg.kind \in {"function", "undefined"})
        => /\ last.outcome = "dispatched"
           /\ last.error = JSNull /\ last.callbacks = 0
           /\ last.options = OptionsForEmpty(last.op)
           /\ last.handler = (last.callback \/ last.arg.kind = "function")
           /\ last.defaultOptions = _options
           /\ \A h \in DOMAIN HeadersOf(last.op, EmptyObject) :
                 HeadersOf(last.op, EmptyObject)[h] # Undefined
                    => Get(HandedHeaders, h) = HeadersOf(last.op, EmptyObject)[h]

C26_Witness ==
    /\ last.op = "listClassifiers" /\ last.arg.kind = "function" /\ ~last.callback
    /\ Dispatched /\ last.handler
    /\ last.options.qs = [verbose |-> Undefined]

====
